---- MODULE Spec2Model ----
(***************************************************************************)
(* The LangGraph pipeline of ai_web_tester: parse_instruction ->           *)
(* generate_code -> validate_code -> {execute_test | handle_error} ->      *)
(* generate_report, with the retry loop through handle_error.              *)
(*                                                                         *)
(* Python strings are TLA+ strings (Len, SubSeq and \o act on them as on   *)
(* Python's len, slicing and +).  The generated script is kept as its      *)
(* sequence of lines.  Python's None is the value None below.              *)
(***************************************************************************)
EXTENDS Integers, Sequences, FiniteSets, TLC

VARIABLES state, pc, origin, trace, repair, files, peer

vars == <<state, pc, origin, trace, repair, files, peer>>

\* ------------------------------------------------------------------ bounds

MaxBudget == 3
MaxActions == 2

\* ------------------------------------------------------- Python primitives

None == "<None>"

Truthy(s) == s # None /\ s # ""

Char(s, i) == SubSeq(s, i, i)

StartsAt(s, p, i) ==
    /\ i >= 1
    /\ i + Len(p) - 1 <= Len(s)
    /\ SubSeq(s, i, i + Len(p) - 1) = p

\* p in s
Contains(s, p) == \E i \in 1..(Len(s) - Len(p) + 1) : StartsAt(s, p, i)

UpperAlpha == "ABCDEFGHIJKLMNOPQRSTUVWXYZ"
LowerAlpha == "abcdefghijklmnopqrstuvwxyz"

LowerMap ==
    [c \in {Char(UpperAlpha, k) : k \in 1..26} |->
        Char(LowerAlpha, CHOOSE k \in 1..26 : Char(UpperAlpha, k) = c)]

LowerChar(c) == IF c \in DOMAIN LowerMap THEN LowerMap[c] ELSE c

RECURSIVE LowerFrom(_, _)
LowerFrom(s, i) ==
    IF i > Len(s) THEN "" ELSE LowerChar(Char(s, i)) \o LowerFrom(s, i + 1)

\* s.lower()
Lower(s) == LowerFrom(s, 1)

RECURSIVE ReplaceFrom(_, _, _, _)
ReplaceFrom(s, i, a, b) ==
    IF i > Len(s) THEN ""
    ELSE (IF Char(s, i) = a THEN b ELSE Char(s, i)) \o ReplaceFrom(s, i + 1, a, b)

\* s.replace(a, b) for a one-character a
Replace(s, a, b) == ReplaceFrom(s, 1, a, b)

\* f"{x}" of a value that may be None
Render(x) == IF x = None THEN "None" ELSE x

Quote == "\""
DocDelimiter == "\"\"\""
Apostrophe == "'"
WhiteSpace == {" ", "\t", "\n", "\r", "\f"}

\* End of the longest run of characters outside stop that starts at i
\* (i - 1 when the run is empty).
RECURSIVE RunEnd(_, _, _)
RunEnd(s, i, stop) ==
    IF i > Len(s) \/ Char(s, i) \in stop THEN i - 1 ELSE RunEnd(s, i + 1, stop)

\* Does prefix ([^stop]{min,}) suffix match with the prefix starting at i.
\* The class excludes the first character of the suffix in every pattern of
\* the program, so the greedy run is the only possible capture.
DelimitedAt(s, i, prefix, stop, suffix, min) ==
    /\ StartsAt(s, prefix, i)
    /\ LET b == i + Len(prefix)
           e == RunEnd(s, b, stop)
       IN  e - b + 1 >= min /\ StartsAt(s, suffix, e + 1)

CaptureAt(s, i, prefix, stop) ==
    LET b == i + Len(prefix) IN SubSeq(s, b, RunEnd(s, b, stop))

Least(S) == {i \in S : \A j \in S : i <= j}
Greatest(S) == {i \in S : \A j \in S : i >= j}

\* The capture of the match whose prefix starts at the one position in at
OnlyCapture(s, at, prefix, stop) ==
    CHOOSE c \in {CaptureAt(s, i, prefix, stop) : i \in at} : TRUE

\* re.search(prefix ([^stop]+) suffix, s): group 1 of the leftmost match, or None
SearchDelimited(s, prefix, stop, suffix) ==
    LET hits == {i \in 1..Len(s) : DelimitedAt(s, i, prefix, stop, suffix, 1)}
    IN  IF hits = {} THEN None ELSE OnlyCapture(s, Least(hits), prefix, stop)

\* re.search(head .* prefix ([^stop]+) suffix, s): the leftmost head, then the
\* greedy .* (which does not cross a newline) takes the last prefix it can.
SearchAfter(s, head, prefix, stop, suffix) ==
    LET SameLine(a, b) == \A k \in a..b : Char(s, k) # "\n"
        Tails(i) == {k \in (i + Len(head))..Len(s) :
                        /\ SameLine(i + Len(head), k - 1)
                        /\ DelimitedAt(s, k, prefix, stop, suffix, 1)}
        heads == {i \in 1..Len(s) : StartsAt(s, head, i) /\ Tails(i) # {}}
    IN  IF heads = {} THEN None
        ELSE OnlyCapture(s, UNION {Greatest(Tails(i)) : i \in Least(heads)}, prefix, stop)

\* ------------------------------------------------ Selector failure analyzer

SELECTOR_ALTERNATIVES == <<
    [keyword |-> "button",
     selectors |-> <<"button[type='submit']", "button", "input[type='submit']",
                     "[role='button']">>],
    [keyword |-> "username",
     selectors |-> <<"input[name='username']", "input[id='username']",
                     "input[type='text']", "#username", "[placeholder*='user']">>],
    [keyword |-> "password",
     selectors |-> <<"input[name='password']", "input[id='password']",
                     "input[type='password']", "#password", "[placeholder*='pass']">>],
    [keyword |-> "email",
     selectors |-> <<"input[name='email']", "input[id='email']",
                     "input[type='email']", "#email", "[placeholder*='email']">>],
    [keyword |-> "search",
     selectors |-> <<"input[name='search']", "input[name='query']",
                     "input[id='search']", "input[type='search']", "#search",
                     "[placeholder*='search']">>],
    [keyword |-> "login",
     selectors |-> <<"button:has-text('Login')", "button:has-text('Sign In')",
                     "button:has-text('Log In')", "input[type='submit']",
                     "button[type='submit']">> ] >>

\* The patterns of extract_failed_selector, in the order of the list.
PatternMatch(k, msg) ==
    CASE k = 1 -> SearchDelimited(msg, "Selector \"", {Quote}, "\" not found")
      [] k = 2 -> SearchAfter(msg, "locator.click: Timeout", "selector=\"", {Quote}, Quote)
      [] k = 3 -> SearchDelimited(msg, "waiting for selector \"", {Quote}, Quote)
      [] k = 4 -> SearchDelimited(msg, "Error: ", WhiteSpace, " not found")

NumPatterns == 4

\* The patterns tried from the end of the list
FirstMatch_LastPattern(msg) ==
    LET hits == {k \in 1..NumPatterns : PatternMatch(k, msg) # None}
    IN  IF hits = {} THEN None
        ELSE PatternMatch(CHOOSE k \in hits : \A j \in hits : k >= j, msg)

\* group 1 of the first pattern of the list that matches, or None
FirstMatch(msg) ==
    LET hits == {k \in 1..NumPatterns : PatternMatch(k, msg) # None}
    IN  IF hits = {} THEN None
        ELSE PatternMatch(CHOOSE k \in hits : \A j \in hits : k <= j, msg)

extract_failed_selector(error_message) ==
    CHOOSE found \in {FirstMatch(msg) : msg \in {error_message}} : TRUE

\* [x for x in xs if x != drop]
Without(xs, drop) == SelectSeq(xs, LAMBDA x : x # drop)

\* first occurrences, in order
Unique(xs) ==
    LET first == {i \in 1..Len(xs) : \A j \in 1..(i - 1) : xs[j] # xs[i]}
        Rank(i) == Cardinality({j \in first : j <= i})
    IN  [k \in 1..Cardinality(first) |-> xs[CHOOSE i \in first : Rank(i) = k]]

\* xs[:n]
Take(xs, n) == SubSeq(xs, 1, IF Len(xs) < n THEN Len(xs) ELSE n)

RECURSIVE KeywordAlternatives(_, _)
KeywordAlternatives(k, selector_lower) ==
    IF k > Len(SELECTOR_ALTERNATIVES) THEN <<>>
    ELSE (IF Contains(selector_lower, SELECTOR_ALTERNATIVES[k].keyword)
          THEN SELECTOR_ALTERNATIVES[k].selectors ELSE <<>>)
         \o KeywordAlternatives(k + 1, selector_lower)

MaxAlternatives == 5

\* Alternatives that leaves the failing selector among the table entries
Alternatives_KeepsOriginal(failed_selector, selector_lower) ==
    LET kept == KeywordAlternatives(1, selector_lower)
        field_name == SearchDelimited(failed_selector, "name='", {Apostrophe}, Apostrophe)
        generic ==
            IF Contains(selector_lower, "button") \/ Contains(selector_lower, "submit")
            THEN <<"button:first-of-type", "form button", "[type='submit']">>
            ELSE IF Contains(selector_lower, "input") /\ field_name # None
            THEN <<"#" \o field_name,
                   "input[id='" \o field_name \o "']",
                   "[placeholder*='" \o field_name \o "']">>
            ELSE <<>>
    IN  kept \o generic

\* Alternatives that builds the name-based selectors without the test for input
Alternatives_NameWithoutInput(failed_selector, selector_lower) ==
    LET kept == Without(KeywordAlternatives(1, selector_lower), failed_selector)
        field_name == SearchDelimited(failed_selector, "name='", {Apostrophe}, Apostrophe)
        generic ==
            IF Contains(selector_lower, "button") \/ Contains(selector_lower, "submit")
            THEN <<"button:first-of-type", "form button", "[type='submit']">>
            ELSE IF field_name # None
            THEN <<"#" \o field_name,
                   "input[id='" \o field_name \o "']",
                   "[placeholder*='" \o field_name \o "']">>
            ELSE <<>>
    IN  kept \o generic

\* alternatives, before the duplicates go and the list is cut
Alternatives(failed_selector, selector_lower) ==
    LET kept == Without(KeywordAlternatives(1, selector_lower), failed_selector)
        field_name == SearchDelimited(failed_selector, "name='", {Apostrophe}, Apostrophe)
        generic ==
            IF Contains(selector_lower, "button") \/ Contains(selector_lower, "submit")
            THEN <<"button:first-of-type", "form button", "[type='submit']">>
            ELSE IF Contains(selector_lower, "input") /\ field_name # None
            THEN <<"#" \o field_name,
                   "input[id='" \o field_name \o "']",
                   "[placeholder*='" \o field_name \o "']">>
            ELSE <<>>
    IN  kept \o generic

suggest_alternative_selectors(failed_selector) ==
    CHOOSE suggested \in
        {Take(Unique(alternatives), MaxAlternatives) :
            alternatives \in {Alternatives(selector, selector_lower) :
                                 selector \in {failed_selector},
                                 selector_lower \in {Lower(failed_selector)}}} : TRUE


\* ------------------------------------------------------------ Code generator

\* The lines of PLAYWRIGHT_TEMPLATE before and after {test_steps} that hold a
\* substitution or that a later stage inspects; leading blanks are dropped.
TemplateHead(timestamp, instruction) == <<
    DocDelimiter,
    "Auto-generated Playwright Test Script",
    "Generated: " \o timestamp,
    "Instruction: " \o instruction,
    DocDelimiter,
    "import time",
    "from playwright.sync_api import sync_playwright, expect",
    "def run_test():",
    "with sync_playwright() as p:",
    "browser = p.chromium.launch(headless=True)",
    "page = context.new_page()",
    "try:" >>

TemplateTail == <<
    "except Exception as e:",
    "finally:",
    "context.close()",
    "browser.close()",
    "return results" >>

StartsWith(s, p) == StartsAt(s, p, 1)

Or(a, b) == IF Truthy(a) THEN a ELSE b

generate_step_code(action, step_number, base_url) ==
    LET action_type == action.action
        selector == IF Truthy(action.selector)
                    THEN Replace(action.selector, Quote, "\\\"") ELSE action.selector
        value == IF Truthy(action.value)
                 THEN Replace(action.value, Quote, "\\\"") ELSE action.value
        target == action.target
        url_path == Or(target, Or(value, "/"))
        url == IF StartsWith(url_path, "http") THEN url_path ELSE base_url \o url_path
        body ==
            CASE action_type = "goto" ->
                    <<"page.goto(\"" \o url \o "\")",
                      "page.wait_for_load_state(\"networkidle\")">>
              [] action_type = "click" ->
                    <<"page.click(\"" \o Render(selector) \o "\")">>
              [] action_type = "fill" ->
                    <<"page.fill(\"" \o Render(selector) \o "\", \"" \o Render(value) \o "\")">>
              [] action_type = "wait" ->
                    <<"page.wait_for_selector(\"" \o Render(selector) \o "\", timeout=10000)">>
              [] action_type = "assert_url" ->
                    <<"assert \"" \o Render(value) \o "\" in page.url">>
              [] action_type = "assert_visible" ->
                    <<"expect(page.locator(\"" \o Render(selector) \o "\")).to_be_visible()">>
              [] action_type = "assert_text" ->
                    IF Truthy(selector)
                    THEN <<"expect(page.locator(\"" \o selector
                             \o "\")).to_contain_text(\"" \o Render(value) \o "\")">>
                    ELSE <<"expect(page.locator(\"body\")).to_contain_text(\""
                             \o Render(value) \o "\")">>
              [] OTHER -> <<"pass  # Unknown action: " \o action_type>>
    IN  <<"# Step " \o ToString(step_number) \o ": " \o action_type,
          "step_result = {\"step_number\": " \o ToString(step_number)
              \o ", \"action\": \"" \o action_type
              \o "\", \"selector\": \"" \o Render(selector) \o "\", \"status\": \"pass\"}",
          "try:">>
        \o body
        \o <<"results[\"steps\"].append(step_result)">>

RECURSIVE StepCodes(_, _, _)
StepCodes(parsed_actions, i, base_url) ==
    IF i > Len(parsed_actions) THEN <<>>
    ELSE generate_step_code(parsed_actions[i], i, base_url)
         \o StepCodes(parsed_actions, i + 1, base_url)

\* PLAYWRIGHT_TEMPLATE.format(...): the script generate_code stores
Emit(parsed_actions, base_url, instruction, timestamp) ==
    TemplateHead(timestamp, Replace(instruction, Quote, "\\\""))
    \o StepCodes(parsed_actions, 1, base_url)
    \o TemplateTail

\* ----------------------------------------------------------------- Validator

\* x in code, for an x without a line break
InCode(code, x) == \E i \in 1..Len(code) : Contains(code[i], x)

\* Length of the run of backslashes that ends at position i
RECURSIVE BackslashRun(_, _)
BackslashRun(line, i) ==
    IF i >= 1 /\ Char(line, i) = "\\" THEN 1 + BackslashRun(line, i - 1) ELSE 0

\* Is position i of the line escaped: an odd run of backslashes ends before it.
Escaped(line, i) == BackslashRun(line, i - 1) % 2 = 1

\* Number of double quotes of a line that no backslash escapes.
OpenQuotes(line) ==
    Cardinality({i \in 1..Len(line) : Char(line, i) = Quote /\ ~Escaped(line, i)})

\* ast.parse, reduced to the one defect substituted text can cause in the
\* template: a string literal that its line does not close.  Lines between the
\* docstring delimiters are text.  The result is the first such line, or 0.
FirstBadLine(code) ==
    LET InDoc(i) == Cardinality({k \in 1..(i - 1) : code[k] = DocDelimiter}) % 2 = 1
        bad == {i \in 1..Len(code) :
                   /\ code[i] # DocDelimiter
                   /\ ~InDoc(i)
                   /\ OpenQuotes(code[i]) % 2 = 1}
    IN  IF bad = {} THEN 0 ELSE CHOOSE i \in bad : \A j \in bad : i <= j

check_syntax(code) ==
    LET lineno == FirstBadLine(code)
    IN  IF lineno = 0
        THEN [ok |-> TRUE, msg |-> "", line |-> 0]
        ELSE [ok |-> FALSE, msg |-> "Syntax error: unterminated string literal",
              line |-> lineno]

required_imports == <<"playwright", "sync_playwright">>

check_required_imports(code) ==
    LET missing == {k \in 1..Len(required_imports) : ~InCode(code, required_imports[k])}
    IN  IF missing = {}
        THEN [ok |-> TRUE, msg |-> "", line |-> 0]
        ELSE [ok |-> FALSE,
              msg |-> "Missing required import: "
                      \o required_imports[CHOOSE k \in missing : \A j \in missing : k <= j],
              line |-> 0]

check_function_structure(code) ==
    IF ~InCode(code, "def run_test")
    THEN [ok |-> FALSE, msg |-> "Missing run_test function", line |-> 0]
    ELSE IF ~InCode(code, "launch(")
    THEN [ok |-> FALSE, msg |-> "Missing browser launch", line |-> 0]
    ELSE IF ~InCode(code, "close()")
    THEN [ok |-> FALSE, msg |-> "Missing browser close", line |-> 0]
    ELSE [ok |-> TRUE, msg |-> "", line |-> 0]

InteractionCalls == {"page.click(\"", "page.fill(\"", "page.wait_for_selector(\""}

\* Group 2 of every match of page\.(click|fill|wait_for_selector)\("([^"]*)"\)
SelectorLiterals(code) ==
    UNION {{CaptureAt(code[n], i, call, {Quote}) :
               i \in {j \in 1..Len(code[n]) :
                         DelimitedAt(code[n], j, call, {Quote}, "\")", 0)}} :
           <<n, call>> \in (1..Len(code)) \X InteractionCalls}

\* The first condition is  'page.click("")' in code or 'page.fill("",' : its
\* second operand is a non-empty string constant, not a membership test.
check_selectors(code) ==
    IF InCode(code, "page.click(\"\")") \/ Truthy("page.fill(\"\",")
    THEN [ok |-> FALSE, msg |-> "Empty selector detected", line |-> 0]
    ELSE LET bad == {s \in SelectorLiterals(code) : Contains(s, Quote)}
         IN  IF bad # {}
             THEN [ok |-> FALSE,
                   msg |-> "Unescaped quotes in selector: " \o (CHOOSE s \in bad : TRUE),
                   line |-> 0]
             ELSE [ok |-> TRUE, msg |-> "", line |-> 0]

\* error_line when validation passed (None)
NoLine == -1

\* The validation_result of a failing check
Failure(check_name, result) ==
    [is_valid |-> FALSE,
     error_message |-> check_name \o " check failed: " \o result.msg,
     error_line |-> result.line]

\* validate_code with the structure check ahead of the imports check
ValidationOf_StructureBeforeImports(code) ==
    IF code = <<>>
    THEN [is_valid |-> FALSE, error_message |-> "No code to validate", error_line |-> 0]
    ELSE IF ~check_syntax(code).ok THEN Failure("Syntax", check_syntax(code))
    ELSE IF ~check_function_structure(code).ok
    THEN Failure("Structure", check_function_structure(code))
    ELSE IF ~check_required_imports(code).ok
    THEN Failure("Imports", check_required_imports(code))
    ELSE IF ~check_selectors(code).ok THEN Failure("Selectors", check_selectors(code))
    ELSE [is_valid |-> TRUE, error_message |-> None, error_line |-> NoLine]

\* validate_code without the early return for an empty script
ValidationOf_ChecksEmptyScript(code) ==
    IF ~check_syntax(code).ok THEN Failure("Syntax", check_syntax(code))
    ELSE IF ~check_required_imports(code).ok
    THEN Failure("Imports", check_required_imports(code))
    ELSE IF ~check_function_structure(code).ok
    THEN Failure("Structure", check_function_structure(code))
    ELSE IF ~check_selectors(code).ok THEN Failure("Selectors", check_selectors(code))
    ELSE [is_valid |-> TRUE, error_message |-> None, error_line |-> NoLine]

\* The validation_result validate_code stores for a script: the checks in the
\* order of its list, the first failing one reported.
ValidationOf(code) ==
    IF code = <<>>
    THEN [is_valid |-> FALSE, error_message |-> "No code to validate", error_line |-> 0]
    ELSE IF ~check_syntax(code).ok THEN Failure("Syntax", check_syntax(code))
    ELSE IF ~check_required_imports(code).ok
    THEN Failure("Imports", check_required_imports(code))
    ELSE IF ~check_function_structure(code).ok
    THEN Failure("Structure", check_function_structure(code))
    ELSE IF ~check_selectors(code).ok THEN Failure("Selectors", check_selectors(code))
    ELSE [is_valid |-> TRUE, error_message |-> None, error_line |-> NoLine]

\* --------------------------------------------------------------------- State

InitialValidation == [is_valid |-> FALSE, error_message |-> None, error_line |-> NoLine]

InitialExecution ==
    [success |-> FALSE, steps |-> <<>>, total_time_ms |-> 0, console_logs |-> <<>>,
     error_message |-> None]

InitialReport ==
    [status |-> "PENDING", total_steps |-> 0, passed |-> 0, failed |-> 0,
     execution_time_ms |-> 0, steps |-> <<>>, failure_reason |-> None,
     screenshots |-> <<>>, human_readable |-> ""]

DefaultMaxRetries == 3

\* create_initial_state with a budget of two
create_initial_state_BudgetTwo(instruction, base_url) ==
    [instruction |-> instruction,
     base_url |-> base_url,
     parsed_actions |-> <<>>,
     generated_code |-> <<>>,
     test_file_path |-> "",
     validation_result |-> InitialValidation,
     execution_result |-> InitialExecution,
     report |-> InitialReport,
     errors |-> <<>>,
     retry_count |-> 0,
     max_retries |-> DefaultMaxRetries - 1]

create_initial_state(instruction, base_url) ==
    [instruction |-> instruction,
     base_url |-> base_url,
     parsed_actions |-> <<>>,
     generated_code |-> <<>>,
     test_file_path |-> "",
     validation_result |-> InitialValidation,
     execution_result |-> InitialExecution,
     report |-> InitialReport,
     errors |-> <<>>,
     retry_count |-> 0,
     max_retries |-> DefaultMaxRetries]

\* ---------------------------------------------------------------- Translator

\* What the language model may answer: action records as it writes them.
RawPool == {
    [action |-> "goto", target |-> None, selector |-> None, value |-> "/login"],
    [action |-> "fill", target |-> None, selector |-> "input[name='username']",
     value |-> "testuser"],
    [action |-> "click", target |-> None, selector |-> "#login-btn", value |-> None],
    [action |-> "click", target |-> None, selector |-> "#main", value |-> None],
    [action |-> "click", target |-> None, selector |-> "a\\", value |-> None] }

RawLists == UNION {[1..n -> RawPool] : n \in 0..MaxActions}

TranslatorFaults == {"Expecting value: line 1 column 1 (char 0)"}

normalize_actions(actions) ==
    [i \in 1..Len(actions) |->
        [action |-> actions[i].action,
         target |-> IF actions[i].action = "goto"
                    THEN Or(actions[i].target, actions[i].value) ELSE None,
         selector |-> actions[i].selector,
         value |-> actions[i].value]]

ActionLists == {normalize_actions(raw) : raw \in RawLists}

\* ------------------------------------------------------------------ Executor

Clock == {"1700000000", "1700000001"}

\* The step_result literals of a script, in order: what run_test reports on.
StepLines(code) ==
    SelectSeq(code, LAMBDA line : StartsWith(line, "step_result = {"))

FieldOf(line, key) ==
    LET Field(text, prefix) ==
            OnlyCapture(text, Least({i \in 1..Len(text) : StartsAt(text, prefix, i)}),
                        prefix, {Quote})
    IN  CHOOSE c \in {Field(text, "\"" \o key \o "\": \"") : text \in {line}} : TRUE

StepResult(code, n, status, error, screenshot) ==
    [step_number |-> n,
     action |-> FieldOf(StepLines(code)[n], "action"),
     selector |-> FieldOf(StepLines(code)[n], "selector"),
     status |-> status, error |-> error, time_ms |-> 0, screenshot |-> screenshot]

\* str(step_error) of a step that fails on selector s
StepFaults(s) == {
    "Selector \"" \o s \o "\" not found",
    "Timeout 30000ms exceeded.",
    "waiting for selector \"#search-box\"" }

\* What run_test of the emitted script returns: every step passes, or the
\* steps run until one raises, which the script records and re-raises.
RunTestResults(code) ==
    LET n == Len(StepLines(code))
        Passed(k) == [i \in 1..k |-> StepResult(code, i, "pass", None, None)]
    IN  {[success |-> TRUE, steps |-> Passed(n), total_time_ms |-> 0,
          console_logs |-> <<>>, error_message |-> None]}
        \cup
        UNION {{[success |-> FALSE,
                 steps |-> Append(Passed(k - 1),
                                  StepResult(code, k, "fail", m, "screenshots/error.png")),
                 total_time_ms |-> 0, console_logs |-> <<>>, error_message |-> m] :
                    m \in StepFaults(FieldOf(StepLines(code)[k], "selector"))} :
               k \in 1..n}

\* execute_code_safely: the result of run_test, or the fault it catches
execute_code_safely(code) ==
    RunTestResults(code)
    \cup {[success |-> FALSE, steps |-> <<>>, total_time_ms |-> 0, console_logs |-> <<>>,
           error_message |-> "RuntimeError: browser launch failed"]}

save_test_file(timestamp) == "playwright_tests/generated_test_" \o timestamp \o ".py"

\* The directory playwright_tests: the files save_test_file can name, each
\* with the script last written to it, None while it does not exist.
Paths == {save_test_file(t) : t \in Clock}

FilesOf(s) ==
    [p \in Paths |-> IF p = s.test_file_path THEN s.generated_code ELSE None]


\* ------------------------------------------------------------- Error handler

\* modify_actions_with_alternatives that stops at the first action it rewrites
modify_actions_with_alternatives_FirstOnly(parsed_actions, failed_selector, alternatives) ==
    LET hits == {i \in 1..Len(parsed_actions) :
                    parsed_actions[i].selector = failed_selector}
    IN  IF alternatives = <<>> \/ hits = {}
        THEN [modified |-> FALSE, actions |-> parsed_actions]
        ELSE [modified |-> TRUE,
              actions |-> [i \in 1..Len(parsed_actions) |->
                              IF i \in Least(hits)
                              THEN [parsed_actions[i] EXCEPT !.selector = alternatives[1]]
                              ELSE parsed_actions[i]]]

\* modify_actions_with_alternatives that reports a rewrite whenever it has an
\* alternative, whether or not an action carries the failing selector
modify_actions_with_alternatives_AlwaysModified(parsed_actions, failed_selector, alternatives) ==
    IF alternatives = <<>> THEN [modified |-> FALSE, actions |-> parsed_actions]
    ELSE [modified |-> TRUE,
          actions |-> [i \in 1..Len(parsed_actions) |->
                          IF parsed_actions[i].selector = failed_selector
                          THEN [parsed_actions[i] EXCEPT !.selector = alternatives[1]]
                          ELSE parsed_actions[i]]]

\* The rewritten action list and the flag modify_actions_with_alternatives returns
modify_actions_with_alternatives(parsed_actions, failed_selector, alternatives) ==
    IF alternatives = <<>> THEN [modified |-> FALSE, actions |-> parsed_actions]
    ELSE [modified |-> \E i \in 1..Len(parsed_actions) :
                          parsed_actions[i].selector = failed_selector,
          actions |-> [i \in 1..Len(parsed_actions) |->
                          IF parsed_actions[i].selector = failed_selector
                          THEN [parsed_actions[i] EXCEPT !.selector = alternatives[1]]
                          ELSE parsed_actions[i]]]

\* ErrorOf that takes the last failing step, not the first
ErrorOf_LastFailingStep(s) ==
    IF ~s.validation_result.is_valid
    THEN [source |-> "validation", message |-> s.validation_result.error_message]
    ELSE IF ~s.execution_result.success
    THEN LET steps == s.execution_result.steps
             failing == {i \in 1..Len(steps) :
                            steps[i].status = "fail" /\ Truthy(steps[i].error)}
         IN  [source |-> "execution",
              message |-> IF failing = {} THEN s.execution_result.error_message
                          ELSE steps[CHOOSE i \in failing : \A j \in failing : i >= j].error]
    ELSE [source |-> None, message |-> None]

\* ErrorOf that looks at the execution result before the validation result
ErrorOf_ExecutionFirst(s) ==
    IF ~s.execution_result.success
    THEN LET steps == s.execution_result.steps
             failing == {i \in 1..Len(steps) :
                            steps[i].status = "fail" /\ Truthy(steps[i].error)}
         IN  [source |-> "execution",
              message |-> IF failing = {} THEN s.execution_result.error_message
                          ELSE steps[CHOOSE i \in failing : \A j \in failing : i <= j].error]
    ELSE IF ~s.validation_result.is_valid
    THEN [source |-> "validation", message |-> s.validation_result.error_message]
    ELSE [source |-> None, message |-> None]

\* error_source and error_message as handle_error finds them
ErrorOf(s) ==
    IF ~s.validation_result.is_valid
    THEN [source |-> "validation", message |-> s.validation_result.error_message]
    ELSE IF ~s.execution_result.success
    THEN LET steps == s.execution_result.steps
             failing == {i \in 1..Len(steps) :
                            steps[i].status = "fail" /\ Truthy(steps[i].error)}
         IN  [source |-> "execution",
              message |-> IF failing = {} THEN s.execution_result.error_message
                          ELSE steps[CHOOSE i \in failing : \A j \in failing : i <= j].error]
    ELSE [source |-> None, message |-> None]

NoRepair ==
    [budget |-> FALSE, source |-> None, message |-> None, failed_selector |-> None,
     alternatives |-> <<>>, modified |-> FALSE, actions |-> <<>>]

\* The recovery step of handle_error on a state with budget left: what it
\* analysed, whether it rewrote an action, and the action list it leaves.
RepairResult(s, err, failed_selector, alternatives) ==
    LET change == modify_actions_with_alternatives(s.parsed_actions, failed_selector,
                                                   alternatives)
    IN  [budget |-> TRUE, source |-> err.source, message |-> err.message,
         failed_selector |-> failed_selector, alternatives |-> alternatives,
         modified |-> change.modified, actions |-> change.actions]

RepairWith(s, err, failed_selector) ==
    CHOOSE r \in {RepairResult(s, err, failed_selector, alternatives) :
                     alternatives \in {IF Truthy(failed_selector)
                                       THEN suggest_alternative_selectors(failed_selector)
                                       ELSE <<>>}} : TRUE

RepairFrom(s, err) ==
    CHOOSE r \in {RepairWith(s, err, failed_selector) :
                     failed_selector \in {IF Truthy(err.message)
                                          THEN extract_failed_selector(err.message)
                                          ELSE None}} : TRUE

RepairOf(s) == CHOOSE r \in {RepairFrom(s, err) : err \in {ErrorOf(s)}} : TRUE

\* handle_error with the budget test off by one: > for >=
handle_error_CountsPastBudget(s) ==
    IF s.retry_count > s.max_retries
    THEN [s EXCEPT !.errors = Append(@, "Maximum retries ("
                                        \o ToString(s.max_retries) \o ") exceeded")]
    ELSE CHOOSE next \in
            {IF r.modified
             THEN [s EXCEPT !.retry_count = @ + 1, !.parsed_actions = r.actions,
                            !.generated_code = <<>>,
                            !.validation_result.is_valid = FALSE]
             ELSE [s EXCEPT !.retry_count = @ + 1, !.parsed_actions = r.actions] :
                r \in {RepairOf(s)}} : TRUE

\* handle_error whose terminal diagnostic replaces the log instead of extending it
handle_error_ResetsErrors(s) ==
    IF s.retry_count >= s.max_retries
    THEN [s EXCEPT !.errors = <<"Maximum retries ("
                                \o ToString(s.max_retries) \o ") exceeded">>]
    ELSE CHOOSE next \in
            {IF r.modified
             THEN [s EXCEPT !.retry_count = @ + 1, !.parsed_actions = r.actions,
                            !.generated_code = <<>>,
                            !.validation_result.is_valid = FALSE]
             ELSE [s EXCEPT !.retry_count = @ + 1, !.parsed_actions = r.actions] :
                r \in {RepairOf(s)}} : TRUE

\* handle_error that rewrites the actions but keeps the script and its verdict
handle_error_KeepsScript(s) ==
    IF s.retry_count >= s.max_retries
    THEN [s EXCEPT !.errors = Append(@, "Maximum retries ("
                                        \o ToString(s.max_retries) \o ") exceeded")]
    ELSE CHOOSE next \in
            {[s EXCEPT !.retry_count = @ + 1, !.parsed_actions = r.actions] :
                r \in {RepairOf(s)}} : TRUE

handle_error(s) ==
    IF s.retry_count >= s.max_retries
    THEN [s EXCEPT !.errors = Append(@, "Maximum retries ("
                                        \o ToString(s.max_retries) \o ") exceeded")]
    ELSE CHOOSE next \in
            {IF r.modified
             THEN [s EXCEPT !.retry_count = @ + 1, !.parsed_actions = r.actions,
                            !.generated_code = <<>>,
                            !.validation_result.is_valid = FALSE]
             ELSE [s EXCEPT !.retry_count = @ + 1, !.parsed_actions = r.actions] :
                r \in {RepairOf(s)}} : TRUE

\* should_retry with the budget test off by one: > for >=
should_retry_PastBudget(s) ==
    IF s.retry_count > s.max_retries THEN FALSE
    ELSE IF ~s.validation_result.is_valid THEN TRUE
    ELSE IF ~s.execution_result.success THEN TRUE
    ELSE FALSE

should_retry(s) ==
    IF s.retry_count >= s.max_retries THEN FALSE
    ELSE IF ~s.validation_result.is_valid THEN TRUE
    ELSE IF ~s.execution_result.success THEN TRUE
    ELSE FALSE

\* ------------------------------------------------------------------ Reporter

calculate_summary(steps) ==
    LET total == Len(steps)
        passed == Cardinality({i \in 1..Len(steps) : steps[i].status = "pass"})
    IN  [total |-> total, passed |-> passed, failed |-> total - passed]

get_failure_reason(steps, error_message) ==
    LET failing == {i \in 1..Len(steps) : steps[i].status = "fail" /\ Truthy(steps[i].error)}
    IN  IF failing # {}
        THEN LET step == steps[CHOOSE i \in failing : \A j \in failing : i <= j]
             IN  "Step " \o ToString(step.step_number) \o " (" \o step.action \o "): "
                 \o step.error
        ELSE IF Truthy(error_message) THEN error_message
        ELSE None

collect_screenshots(steps) ==
    LET shot == SelectSeq(steps, LAMBDA step : Truthy(step.screenshot))
    IN  [i \in 1..Len(shot) |-> shot[i].screenshot]

\* The status decided from the step counts alone
ReportStatus_IgnoresSuccess(execution_result) ==
    IF calculate_summary(execution_result.steps).failed = 0 THEN "PASSED" ELSE "FAILED"

\* The status that stays at the placeholder unless the test passed
ReportStatus_KeepsPlaceholder(execution_result) ==
    IF execution_result.success /\ calculate_summary(execution_result.steps).failed = 0
    THEN "PASSED" ELSE "PENDING"

ReportStatus(execution_result) ==
    IF execution_result.success /\ calculate_summary(execution_result.steps).failed = 0
    THEN "PASSED" ELSE "FAILED"

generate_report(s) ==
    LET execution_result == s.execution_result
        steps == execution_result.steps
        summary == calculate_summary(steps)
        status == ReportStatus(execution_result)
        failure_reason == get_failure_reason(steps, execution_result.error_message)
    IN  [s EXCEPT !.report =
            [status |-> status,
             total_steps |-> summary.total,
             passed |-> summary.passed,
             failed |-> summary.failed,
             execution_time_ms |-> execution_result.total_time_ms,
             steps |-> steps,
             failure_reason |-> failure_reason,
             screenshots |-> collect_screenshots(steps),
             human_readable |-> "STATUS: " \o status]]


\* ---------------------------------------------------------------- The graph

Instructions == {"log in"}
BaseUrls == {"http://localhost:5000"}

Nodes == {"parse_instruction", "generate_code", "validate_code", "execute_test",
          "handle_error", "generate_report"}

\* Scripts handed to validate_code directly: every combination of the lines
\* its checks look for, around one interaction call.
ImportLines == {<<>>, <<"import playwright">>,
                <<"from playwright.sync_api import sync_playwright">>}
CallLines == {"page.click(\"#login-btn\")", "page.click(\"\")",
              "page.fill(\"\", \"x\")", "page.click(\"a\\\")"}
Optional(line) == {<<>>, <<line>>}

ScriptSamples ==
    {imp \o def \o launch \o <<call>> \o close :
        imp \in ImportLines, def \in Optional("def run_test():"),
        launch \in Optional("browser = p.chromium.launch(headless=True)"),
        call \in CallLines, close \in Optional("browser.close()")}

\* run_agent: the initial state as create_initial_state builds it
InitRunAgent ==
    /\ origin = "run_agent"
    /\ pc = "parse_instruction"
    /\ \E i \in Instructions, b \in BaseUrls : state = create_initial_state(i, b)

\* compile_graph().invoke on an initial state whose budget the caller set
InitInvoke ==
    /\ origin = "invoke"
    /\ pc = "parse_instruction"
    /\ \E i \in Instructions, b \in BaseUrls, m \in 0..MaxBudget :
          state = [create_initial_state(i, b) EXCEPT !.max_retries = m]

\* validate_code called on a script of the caller
InitValidate ==
    /\ origin = "node"
    /\ pc = "validate_code"
    /\ \E i \in Instructions, b \in BaseUrls, m \in 0..MaxBudget, code \in ScriptSamples :
          state = [create_initial_state(i, b) EXCEPT !.max_retries = m,
                                                      !.generated_code = code]

\* route_after_validation called on a state whose validation passed
InitValidatedWith(lists) ==
    /\ origin = "node"
    /\ pc = "route_after_validation"
    /\ \E i \in Instructions, b \in BaseUrls, m \in 0..MaxBudget, acts \in lists :
          \E n \in 0..m, t \in {CHOOSE c \in Clock : TRUE} :
             state = [create_initial_state(i, b) EXCEPT
                         !.max_retries = m,
                         !.retry_count = n,
                         !.parsed_actions = acts,
                         !.generated_code = Emit(acts, b, i, t),
                         !.validation_result =
                             [is_valid |-> TRUE, error_message |-> None,
                              error_line |-> NoLine]]

InitValidated == InitValidatedWith(ActionLists \ {<<>>})

\* Selectors a failure message may name: table keywords alone and combined,
\* in either case, the generic alternatives themselves, name attributes with
\* and without an input, and selectors nothing applies to.
ProbeSelectors == {
    "#login-btn", "#main", "#submit", "[type='submit']", "form button",
    "button[type='submit']", "button#Login-Username", "#Search",
    "input[name='q']", "select[name='q']", "input[type='file']" }

\* Messages handle_error may find: each selector in the not-found form, one
\* message per other pattern, messages two patterns match, and none.
ProbeMessages ==
    {"Selector \"" \o s \o "\" not found" : s \in ProbeSelectors}
    \cup {"locator.click: Timeout 30000ms exceeded. selector=\"#login-btn\"",
          "waiting for selector \"#login-btn\"",
          "Error: #login-btn not found",
          "waiting for selector \"#main\": Selector \"#login-btn\" not found",
          "Error: #main not found while waiting for selector \"#login-btn\"",
          "Element is not visible",
          ""}

ProbeStep(n, status, error) ==
    [step_number |-> n, action |-> "click", selector |-> "#login-btn", status |-> status,
     error |-> error, time_ms |-> 0, screenshot |-> None]

\* Step lists an execution result may carry into handle_error: none, one
\* failing step after a passing one, two failing steps with different
\* errors, and a failing step without an error before one with an error.
ProbeSteps == {
    <<>>,
    <<ProbeStep(1, "pass", None), ProbeStep(2, "fail", "Selector \"#login-btn\" not found")>>,
    <<ProbeStep(1, "fail", "Selector \"#login-btn\" not found"),
      ProbeStep(2, "fail", "Selector \"#submit\" not found")>>,
    <<ProbeStep(1, "fail", ""), ProbeStep(2, "pass", "Selector \"#main\" not found"),
      ProbeStep(3, "fail", "Selector \"#submit\" not found")>> }

\* handle_error called on a state whose execution failed with a message
InitHandleError ==
    /\ origin = "node"
    /\ pc = "handle_error"
    /\ \E i \in Instructions, b \in BaseUrls, m \in {0, 1}, msg \in ProbeMessages,
          steps \in ProbeSteps,
          acts \in {<<[action |-> "click", target |-> None, selector |-> s,
                       value |-> None]>> : s \in {"#login-btn", "[type='submit']"}} :
          state = [create_initial_state(i, b) EXCEPT
                      !.max_retries = m,
                      !.parsed_actions = acts,
                      !.generated_code = Emit(acts, b, i, CHOOSE c \in Clock : TRUE),
                      !.validation_result.is_valid = TRUE,
                      !.execution_result.error_message = msg,
                      !.execution_result.steps = steps]

\* route_after_execution called on a state whose execution result the executor
\* filled in: success as reported, with the step lists above
InitExecuted ==
    /\ origin = "node"
    /\ pc = "route_after_execution"
    /\ \E i \in Instructions, b \in BaseUrls, m \in {0, 1}, success \in BOOLEAN,
          steps \in ProbeSteps,
          acts \in {<<[action |-> "click", target |-> None, selector |-> "#login-btn",
                       value |-> None]>>} :
          state = [create_initial_state(i, b) EXCEPT
                      !.max_retries = m,
                      !.parsed_actions = acts,
                      !.generated_code = Emit(acts, b, i, CHOOSE c \in Clock : TRUE),
                      !.test_file_path = save_test_file(CHOOSE c \in Clock : TRUE),
                      !.validation_result.is_valid = TRUE,
                      !.execution_result.success = success,
                      !.execution_result.error_message =
                          IF success THEN None ELSE "Selector \"#login-btn\" not found",
                      !.execution_result.steps = steps]

\* The run not scheduled at the moment, when two runs share the process.
Alone == [id |-> 0, state |-> None, pc |-> "END", trace |-> <<>>, repair |-> NoRepair]

Init ==
    /\ trace = <<>>
    /\ repair = NoRepair
    /\ peer = Alone
    /\ \/ InitRunAgent
       \/ InitInvoke
       \/ InitValidate
       \/ InitValidated
       \/ InitHandleError
       \/ InitExecuted
    /\ files = FilesOf(state)

\* The nodes run so far, each with the outcome it left: actions parsed, script
\* emitted, is_valid, success, actions rewritten, status PASSED.
Enter(node, ok) == trace' = Append(trace, [node |-> node, ok |-> ok])

ParseInstruction ==
    /\ pc = "parse_instruction"
    /\ \/ \E raw \in RawLists :
             state' = [state EXCEPT !.parsed_actions = normalize_actions(raw)]
       \/ \E e \in TranslatorFaults :
             state' = [state EXCEPT
                          !.errors = Append(@, "Failed to parse instruction: " \o e),
                          !.parsed_actions = <<>>]
    /\ pc' = "generate_code"
    /\ Enter("parse_instruction", state'.parsed_actions # <<>>)
    /\ UNCHANGED <<origin, repair, files, peer>>

GenerateCode ==
    /\ pc = "generate_code"
    /\ IF state.parsed_actions = <<>>
       THEN state' = [state EXCEPT
                         !.errors = Append(@, "No parsed actions to generate code from"),
                         !.generated_code = <<>>]
       ELSE \E t \in Clock :
               state' = [state EXCEPT !.generated_code =
                            Emit(state.parsed_actions, state.base_url,
                                 state.instruction, t)]
    /\ pc' = "validate_code"
    /\ Enter("generate_code", state'.generated_code # <<>>)
    /\ UNCHANGED <<origin, repair, files, peer>>

ValidateCode ==
    /\ pc = "validate_code"
    /\ state' = [state EXCEPT !.validation_result = ValidationOf(state.generated_code)]
    /\ pc' = "route_after_validation"
    /\ Enter("validate_code", state'.validation_result.is_valid)
    /\ UNCHANGED <<origin, repair, files, peer>>

\* route_after_validation with its branches exchanged
route_after_validation_Exchanged(s) ==
    IF s.validation_result.is_valid THEN "handle_error" ELSE "execute_test"

route_after_validation(s) ==
    IF s.validation_result.is_valid THEN "execute_test" ELSE "handle_error"

RouteAfterValidation ==
    /\ pc = "route_after_validation"
    /\ pc' = route_after_validation(state)
    /\ UNCHANGED <<state, origin, trace, repair, files, peer>>

ExecuteTest ==
    /\ pc = "execute_test"
    /\ IF state.generated_code = <<>>
       THEN /\ state' = [state EXCEPT !.execution_result =
                            [InitialExecution EXCEPT !.error_message = "No code to execute"]]
            /\ files' = files
       ELSE IF ~state.validation_result.is_valid
       THEN /\ state' = [state EXCEPT !.execution_result =
                            [InitialExecution EXCEPT !.error_message =
                                "Code validation failed: "
                                \o Render(state.validation_result.error_message)]]
            /\ files' = files
       ELSE \E t \in Clock, result \in execute_code_safely(state.generated_code) :
               /\ state' = [state EXCEPT !.test_file_path = save_test_file(t),
                                         !.execution_result = result]
               /\ files' = [files EXCEPT ![save_test_file(t)] = state.generated_code]
    /\ pc' = "route_after_execution"
    /\ Enter("execute_test", state'.execution_result.success)
    /\ UNCHANGED <<origin, repair, peer>>

\* route_after_execution that reports a failure without asking should_retry
route_after_execution_NeverRetries(s) ==
    IF s.execution_result.success THEN "generate_report" ELSE "generate_report"

\* route_after_execution without the budget test
route_after_execution_NoBudgetTest(s) ==
    IF s.execution_result.success THEN "generate_report" ELSE "handle_error"

route_after_execution(s) ==
    IF s.execution_result.success THEN "generate_report"
    ELSE IF should_retry(s) THEN "handle_error"
    ELSE "generate_report"

RouteAfterExecution ==
    /\ pc = "route_after_execution"
    /\ pc' = route_after_execution(state)
    /\ UNCHANGED <<state, origin, trace, repair, files, peer>>

HandleError ==
    /\ pc = "handle_error"
    /\ state' = handle_error(state)
    /\ repair' = IF state.retry_count >= state.max_retries THEN NoRepair
                 ELSE RepairOf(state)
    /\ pc' = "route_after_error_handler"
    /\ Enter("handle_error", repair'.modified)
    /\ UNCHANGED <<origin, files, peer>>

\* route_after_error_handler whose retry edge leads back to the translator
route_after_error_handler_Reparses(s) ==
    IF should_retry(s) THEN "parse_instruction" ELSE "generate_report"

\* route_after_error_handler whose give-up edge leads to END
route_after_error_handler_SkipsReport(s) ==
    IF should_retry(s) THEN "generate_code" ELSE "END"

route_after_error_handler(s) ==
    IF should_retry(s) THEN "generate_code" ELSE "generate_report"

RouteAfterErrorHandler ==
    /\ pc = "route_after_error_handler"
    /\ pc' = route_after_error_handler(state)
    /\ UNCHANGED <<state, origin, trace, repair, files, peer>>

GenerateReport ==
    /\ pc = "generate_report"
    /\ state' = generate_report(state)
    /\ pc' = "END"
    /\ Enter("generate_report", state'.report.status = "PASSED")
    /\ UNCHANGED <<origin, repair, files, peer>>

Next ==
    \/ ParseInstruction
    \/ GenerateCode
    \/ ValidateCode
    \/ RouteAfterValidation
    \/ ExecuteTest
    \/ RouteAfterExecution
    \/ HandleError
    \/ RouteAfterErrorHandler
    \/ GenerateReport

Spec == Init /\ [][Next]_vars

\* The runs of the graph, and the scenario-A action list on a validated state.
InitFair ==
    /\ trace = <<>>
    /\ repair = NoRepair
    /\ peer = Alone
    /\ \/ InitRunAgent
       \/ InitInvoke
       \/ InitValidatedWith({acts \in ActionLists :
                               /\ Len(acts) = 1
                               /\ acts[1].selector = "input[name='username']"})
    /\ files = FilesOf(state)

\* The graph runtime runs the next node or router as soon as the last returns.
FairSpec == InitFair /\ [][Next]_vars /\ WF_vars(Next)

\* Two runs in one process, each on a state of its own: two callers, or two
\* threads of one, each past validation with a script of its own.
RunInstruction == <<"log in", "open the main page">>
RunSelector == <<"#login-btn", "#main">>
RunBudgets == {0, 2}

ValidatedRun(k, base_url, max_retries) ==
    LET acts == <<[action |-> "click", target |-> None, selector |-> RunSelector[k],
                   value |-> None]>>
    IN  [create_initial_state(RunInstruction[k], base_url) EXCEPT
            !.max_retries = max_retries,
            !.parsed_actions = acts,
            !.generated_code = Emit(acts, base_url, RunInstruction[k],
                                    CHOOSE c \in Clock : TRUE),
            !.validation_result.is_valid = TRUE]

InitTwoRuns ==
    /\ origin = "node"
    /\ pc = "route_after_validation"
    /\ trace = <<>>
    /\ repair = NoRepair
    /\ files = [p \in Paths |-> None]
    /\ \E b \in BaseUrls, m1, m2 \in RunBudgets :
          /\ state = ValidatedRun(1, b, m1)
          /\ peer = [id |-> 2, state |-> ValidatedRun(2, b, m2),
                     pc |-> "route_after_validation", trace |-> <<>>,
                     repair |-> NoRepair]

\* The scheduler suspends the run between two of its stages and resumes the
\* other where it had stopped.
Switch ==
    /\ peer.id # 0
    /\ peer' = [id |-> 3 - peer.id, state |-> state, pc |-> pc, trace |-> trace,
                repair |-> repair]
    /\ state' = peer.state
    /\ pc' = peer.pc
    /\ trace' = peer.trace
    /\ repair' = peer.repair
    /\ UNCHANGED <<origin, files>>

NextOfTwo ==
    \/ GenerateCode
    \/ ValidateCode
    \/ RouteAfterValidation
    \/ ExecuteTest
    \/ RouteAfterExecution
    \/ HandleError
    \/ RouteAfterErrorHandler
    \/ GenerateReport
    \/ Switch

ConcurrentSpec == InitTwoRuns /\ [][NextOfTwo]_vars


\* -------------------------------------------------------------- Properties

IsRun == origin \in {"run_agent", "invoke"}

LastNode == IF trace = <<>> THEN None ELSE trace[Len(trace)].node

Runs(node) == Cardinality({i \in 1..Len(trace) : trace[i].node = node})

\* C1: in every state of a run, after every stage, 0 <= retry_count <=
\* max_retries, whatever the budget and whatever the translator, the
\* validator and the executor answer.
C1_RetryCountWithinBudget ==
    /\ state.retry_count >= 0
    /\ state.retry_count <= state.max_retries

C1_Witness ==
    /\ IsRun
    /\ LastNode = "handle_error"
    /\ state.max_retries >= 1
    /\ state.retry_count = state.max_retries

\* C2: every run terminates: it reaches generate_report, generate_report runs
\* exactly once, and no node runs after it.
C2_RunEndsWithOneReport ==
    /\ <>(pc = "END")
    /\ [](Runs("generate_report") <= 1)
    /\ [](Runs("generate_report") = 1 => pc = "END" /\ LastNode = "generate_report")
    /\ [](pc = "END" => Runs("generate_report") = 1)

C2_Witness ==
    /\ IsRun
    /\ pc = "END"
    /\ Runs("handle_error") = state.max_retries
    /\ state.max_retries = DefaultMaxRetries

TranslatorFailed ==
    /\ state.errors # <<>>
    /\ StartsWith(state.errors[1], "Failed to parse instruction: ")

\* C4: when the translator fails, the failure is recorded in errors, the
\* action list stays empty and the run goes to the report without a retry:
\* retry_count stays 0, generate_code is not entered again, and the report is
\* FAILED with total_steps = 0.
C4_TranslatorFailureIsNotRetried ==
    (IsRun /\ TranslatorFailed /\ pc = "END")
        => /\ state.parsed_actions = <<>>
           /\ state.retry_count = 0
           /\ Runs("generate_code") = 1
           /\ state.report.status = "FAILED"
           /\ state.report.total_steps = 0

\* The selector check as the specification words it: no interaction call with
\* an empty-string selector, no selector literal holding a bare quote.
SelectorHygiene(code) ==
    /\ \A call \in InteractionCalls : ~InCode(code, call \o Quote)
    /\ \A s \in SelectorLiterals(code) : ~Contains(s, Quote)

PassesTheFourChecks(code) ==
    /\ check_syntax(code).ok
    /\ check_required_imports(code).ok
    /\ check_function_structure(code).ok
    /\ SelectorHygiene(code)

\* C5: validate_code answers is_valid = true for every non-empty script that
\* parses, has both markers, has the entry function with a launch and a close
\* call, and has clean selectors; it answers false only when one of the four
\* checks fails.
C5_ValidIffFourChecksPass ==
    (IsRun /\ LastNode = "validate_code" /\ state.generated_code # <<>>)
        => (state.validation_result.is_valid <=> PassesTheFourChecks(state.generated_code))

ExecutorFailed == \E i \in 1..Len(trace) : trace[i].node = "execute_test" /\ ~trace[i].ok

\* C6: scenario B: the translator yields actions and no execution of them
\* fails: the run ends with retry_count = 0, status PASSED and failed = 0, and
\* never enters handle_error.
C6_ScenarioB ==
    (IsRun /\ pc = "END" /\ state.parsed_actions # <<>>
           /\ PassesTheFourChecks(state.generated_code) /\ ~ExecutorFailed)
        => /\ state.retry_count = 0
           /\ state.report.status = "PASSED"
           /\ state.report.failed = 0
           /\ Runs("handle_error") = 0

\* C7: execute_test is entered only from route_after_validation on a valid
\* outcome; a valid outcome always leads to execute_test and an invalid one to
\* handle_error; so the executor never gets an invalid or an empty script.
C7_ExecuteOnlyValidated ==
    /\ [](pc = "execute_test"
            => state.validation_result.is_valid /\ state.generated_code # <<>>)
    /\ [][/\ pc = "route_after_validation"
             => pc' = IF state.validation_result.is_valid
                      THEN "execute_test" ELSE "handle_error"
          /\ pc' = "execute_test" => pc = "route_after_validation"]_vars

C7_Witness ==
    /\ pc = "execute_test"
    /\ state.validation_result.is_valid

\* C8: after execute_test, a success leads to generate_report; a failure leads
\* to handle_error while retry_count < max_retries and straight to
\* generate_report once retry_count >= max_retries.
C8_RouteAfterExecution ==
    [][pc = "route_after_execution"
          => pc' = IF state.execution_result.success THEN "generate_report"
                   ELSE IF state.retry_count < state.max_retries THEN "handle_error"
                   ELSE "generate_report"]_vars

C8_Witness ==
    /\ LastNode = "execute_test"
    /\ ~state.execution_result.success
    /\ state.retry_count >= state.max_retries
    /\ state.max_retries >= 1
    /\ pc = "generate_report"

\* C9: retry_count changes only in handle_error, which leaves it alone when the
\* budget is used up and adds exactly 1 otherwise; it never decreases.
C9_RetryCountOnlyInHandleError ==
    [][/\ pc # "handle_error" => state'.retry_count = state.retry_count
       /\ pc = "handle_error"
             => state'.retry_count = IF state.retry_count >= state.max_retries
                                     THEN state.retry_count
                                     ELSE state.retry_count + 1]_vars

C9_Witness ==
    /\ LastNode = "handle_error"
    /\ state.retry_count = 2
    /\ Runs("handle_error") = 2
    /\ pc = "generate_code"

NoStepFailed(execution_result) ==
    \A i \in 1..Len(execution_result.steps) : execution_result.steps[i].status # "fail"

\* C10: the report's status is PASSED if and only if execution_result.success
\* is true and no step has status "fail"; otherwise it is FAILED.
C10_StatusPassedIffSuccess ==
    LastNode = "generate_report"
        => /\ state.report.status \in {"PASSED", "FAILED"}
           /\ state.report.status = "PASSED"
                <=> (state.execution_result.success /\ NoStepFailed(state.execution_result))

C10_Witness ==
    /\ LastNode = "generate_report"
    /\ state.report.status = "PASSED"
    /\ state.report.total_steps >= 1

\* C11: when a run has ended, whatever failed on the way, the report has
\* status PASSED or FAILED; PENDING, the placeholder of the initial state, is
\* the status only until generate_report has run.
C11_FinishedRunHasDefinitiveStatus ==
    /\ pc = "END" => /\ state.report.status \in {"PASSED", "FAILED"}
                     /\ state.report.human_readable # ""
    /\ state.report.status = "PENDING" <=> Runs("generate_report") = 0

C11_Witness ==
    /\ IsRun
    /\ pc = "END"
    /\ TranslatorFailed
    /\ state.report.status = "FAILED"

\* A handle_error pass has just analysed a message and found a selector in it.
Suggested ==
    /\ LastNode = "handle_error"
    /\ repair.budget
    /\ Truthy(repair.failed_selector)

Elements(xs) == {xs[i] : i \in 1..Len(xs)}

\* C12: for every selector s, suggest_alternative_selectors(s) has at most 5
\* entries and s is not one of them, also when s is a generic submit-button
\* alternative or an entry of the keyword table.
C12_SuggestionsExcludeTheInput ==
    Suggested => /\ Len(repair.alternatives) <= MaxAlternatives
                 /\ repair.failed_selector \notin Elements(repair.alternatives)

TableKeywords == {SELECTOR_ALTERNATIVES[k].keyword : k \in 1..Len(SELECTOR_ALTERNATIVES)}

NoKeyword(selector) == \A kw \in TableKeywords : ~Contains(Lower(selector), kw)

NoFieldName(selector) ==
    SearchDelimited(selector, "name='", {Apostrophe}, Apostrophe) = None

Analysed ==
    /\ LastNode = "handle_error"
    /\ repair.budget
    /\ Truthy(repair.message)

\* C14: extract_failed_selector tries its patterns in the listed order and
\* returns group 1 of the first pattern that matches the message, None when
\* none matches; the not-found message that names "#login-btn" gives exactly
\* "#login-btn".
C14_FirstMatchingPatternInListOrder ==
    Analysed =>
        /\ \A k \in 1..NumPatterns :
              (/\ PatternMatch(k, repair.message) # None
               /\ \A j \in 1..(k - 1) : PatternMatch(j, repair.message) = None)
                  => repair.failed_selector = PatternMatch(k, repair.message)
        /\ (\A k \in 1..NumPatterns : PatternMatch(k, repair.message) = None)
              => repair.failed_selector = None
        /\ repair.message = "Selector \"#login-btn\" not found"
              => repair.failed_selector = "#login-btn"

C14_Witness ==
    /\ Analysed
    /\ repair.message = "Error: #main not found while waiting for selector \"#login-btn\""
    /\ repair.failed_selector = "#login-btn"

\* validate_code has just answered for a non-empty script.
Validated ==
    /\ LastNode = "validate_code"
    /\ state.generated_code # <<>>

Reason == Render(state.validation_result.error_message)

\* C15: validate_code takes its checks in the order syntax, required markers,
\* structure, selector hygiene and reports the first failing one alone, the
\* message starting with that check's name; a script that parses and lacks
\* only the entry function is reported by the structure check.
C15_FirstFailingCheckIsReported ==
    Validated =>
        LET code == state.generated_code
            syntax == check_syntax(code).ok
            imports == check_required_imports(code).ok
            structure == check_function_structure(code).ok
            selectors == check_selectors(code).ok
        IN  /\ ~syntax => StartsWith(Reason, "Syntax check failed: ")
            /\ (syntax /\ ~imports) => StartsWith(Reason, "Imports check failed: ")
            /\ (syntax /\ imports /\ ~structure)
                  => StartsWith(Reason, "Structure check failed: ")
            /\ (syntax /\ imports /\ structure /\ ~selectors)
                  => StartsWith(Reason, "Selectors check failed: ")
            /\ (syntax /\ ~InCode(code, "def run_test"))
                  => ~StartsWith(Reason, "Syntax")
            /\ (syntax /\ imports /\ ~InCode(code, "def run_test"))
                  => Reason = "Structure check failed: Missing run_test function"

C15_Witness ==
    /\ Validated
    /\ check_syntax(state.generated_code).ok
    /\ check_required_imports(state.generated_code).ok
    /\ ~InCode(state.generated_code, "def run_test")
    /\ InCode(state.generated_code, "launch(")
    /\ InCode(state.generated_code, "close()")
    /\ StartsWith(Reason, "Structure check failed: ")

\* C16: validate_code on an empty script answers is_valid = false with the
\* reason "No code to validate" and error line 0, and the reason is that of
\* none of the four checks.
C16_EmptyScriptIsInvalid ==
    (LastNode = "validate_code" /\ state.generated_code = <<>>)
        => /\ ~state.validation_result.is_valid
           /\ Lower(Reason) = "no code to validate"
           /\ state.validation_result.error_line = 0
           /\ ~Contains(Reason, "check failed")

C16_Witness ==
    /\ IsRun
    /\ LastNode = "validate_code"
    /\ state.generated_code = <<>>
    /\ ~TranslatorFailed

\* C17: when the recovery step has a failing selector X and a non-empty list
\* of alternatives, one handle_error pass gives every action whose selector
\* is exactly X the first alternative, however many there are, and leaves
\* every other action as it was.
C17_EveryOccurrenceIsRewritten ==
    [][(/\ pc = "handle_error"
        /\ repair'.budget
        /\ Truthy(repair'.failed_selector)
        /\ repair'.alternatives # <<>>)
          => /\ Len(state'.parsed_actions) = Len(state.parsed_actions)
             /\ \A i \in 1..Len(state.parsed_actions) :
                   state'.parsed_actions[i] =
                      IF state.parsed_actions[i].selector = repair'.failed_selector
                      THEN [state.parsed_actions[i] EXCEPT
                               !.selector = repair'.alternatives[1]]
                      ELSE state.parsed_actions[i]]_vars

C17_Witness ==
    /\ LastNode = "handle_error"
    /\ repair.modified
    /\ repair.failed_selector = "#login-btn"
    /\ Len(state.parsed_actions) = MaxActions
    /\ \A i \in 1..Len(state.parsed_actions) :
          state.parsed_actions[i].selector = repair.alternatives[1]

UsernameTable ==
    UNION {Elements(SELECTOR_ALTERNATIVES[k].selectors) :
              k \in {j \in 1..Len(SELECTOR_ALTERNATIVES) :
                        SELECTOR_ALTERNATIVES[j].keyword = "username"}}

ExecutorSucceeded == \E i \in 1..Len(trace) : trace[i].node = "execute_test" /\ trace[i].ok

\* C18: scenario A: max_retries = 1, the one action is the fill of
\* input[name='username'] and no execution of it succeeds: the run ends with
\* retry_count = 1, status FAILED, and the action carries another selector,
\* one of the username entries of the keyword table.
C18_ScenarioA ==
    (/\ IsRun
     /\ pc = "END"
     /\ state.max_retries = 1
     /\ Len(state.parsed_actions) = 1
     /\ state.parsed_actions[1].action = "fill"
     /\ state.parsed_actions[1].value = "testuser"
     /\ ~ExecutorSucceeded)
        => /\ state.retry_count = 1
           /\ state.report.status = "FAILED"
           /\ state.parsed_actions[1].selector # "input[name='username']"
           /\ state.parsed_actions[1].selector \in UsernameTable

\* C19: scenario C: with max_retries = 0 no repair is attempted: retry_count
\* stays 0, the action list is not rewritten, generate_code runs once, and a
\* failed validation or execution ends in generate_report.
C19_ScenarioC ==
    /\ [](state.max_retries = 0
            => /\ state.retry_count = 0
               /\ ~repair.budget
               /\ Runs("generate_code") <= 1
               /\ (IsRun /\ pc = "END") => Runs("generate_code") = 1)
    /\ [][state.max_retries = 0
             => /\ pc # "parse_instruction"
                   => state'.parsed_actions = state.parsed_actions
                /\ pc \in {"route_after_execution", "route_after_error_handler"}
                   => pc' = "generate_report"
                /\ pc' = "generate_code" => pc = "parse_instruction"]_vars

C19_Witness ==
    /\ IsRun
    /\ pc = "END"
    /\ state.max_retries = 0
    /\ state.parsed_actions # <<>>
    /\ Runs("handle_error") = 1
    /\ state.report.status = "FAILED"

\* The stage that follows a stage, from what the collaborators answered and
\* the two counters alone.
StageAfter(node, is_valid, success, retry_count, max_retries) ==
    CASE node = "parse_instruction" -> "generate_code"
      [] node = "generate_code" -> "validate_code"
      [] node = "validate_code" -> IF is_valid THEN "execute_test" ELSE "handle_error"
      [] node = "execute_test" ->
            IF success \/ retry_count >= max_retries
            THEN "generate_report" ELSE "handle_error"
      [] node = "handle_error" ->
            IF retry_count < max_retries /\ (~is_valid \/ ~success)
            THEN "generate_code" ELSE "generate_report"
      [] node = "generate_report" -> "END"

Min(a, b) == IF a <= b THEN a ELSE b

\* The stage whose answer decides the next one: the node that runs in this
\* step, or the node whose conditional edge is being followed.
StageDone ==
    CASE pc \in Nodes -> pc
      [] pc = "route_after_validation" -> "validate_code"
      [] pc = "route_after_execution" -> "execute_test"
      [] pc = "route_after_error_handler" -> "handle_error"

\* C20: the orchestrator adds no choice of its own: the stage entered next is
\* a function of the last stage, the validator's and the executor's answers
\* and the two counters; in a run retry_count is the number of handle_error
\* passes, cut at max_retries; the report status is a function of the
\* executor's answer. So two runs with the same start and the same answers
\* visit the same stages and end with the same status and retry_count.
C20_StagesFollowFromOutcomes ==
    /\ [][(pc' # pc /\ pc' \in Nodes \cup {"END"})
             => pc' = StageAfter(StageDone, state'.validation_result.is_valid,
                                 state'.execution_result.success,
                                 state'.retry_count, state'.max_retries)]_vars
    /\ [](IsRun => state.retry_count = Min(Runs("handle_error"), state.max_retries))
    /\ [](pc = "END"
            => state.report.status =
                  IF state.execution_result.success /\ NoStepFailed(state.execution_result)
                  THEN "PASSED" ELSE "FAILED")

C20_Witness ==
    /\ pc = "END"
    /\ ExecutorFailed
    /\ Runs("handle_error") >= 2
    /\ Runs("generate_code") >= 1

\* The scripts generate_code can store for the inputs of s, one per reading
\* of the clock.
Emissions(s) ==
    {Emit(s.parsed_actions, s.base_url, s.instruction, t) : t \in Clock}

\* C21: code emission is idempotent: when generate_code runs on a state whose
\* script was emitted from the same parsed_actions, base_url and instruction,
\* at whatever earlier time, the script it stores is the same text.
C21_EmissionIsIdempotent ==
    [][(/\ pc = "generate_code"
        /\ state.parsed_actions # <<>>
        /\ state.generated_code \in Emissions(state))
          => state'.generated_code = state.generated_code]_vars

\* C23: every handle_error pass with budget left, which runs the recovery
\* step, appends at least one entry to errors, so that the errors log of a
\* finished run tells how many repairs were attempted.
C23_RepairAttemptsAreLogged ==
    [][(pc = "handle_error" /\ state.retry_count < state.max_retries)
          => /\ Len(state'.errors) > Len(state.errors)
             /\ SubSeq(state'.errors, 1, Len(state.errors)) = state.errors]_vars

\* C24: a handle_error pass entered with retry_count >= max_retries appends
\* exactly one entry, the terminal diagnostic, to errors and changes nothing
\* else: retry_count is not incremented and the recovery step does not run
\* (parsed_actions, generated_code and validation_result stay); the stage
\* after it is generate_report.
C24_ExhaustedBudgetPass ==
    /\ [][(pc = "handle_error" /\ state.retry_count >= state.max_retries)
             => /\ Len(state'.errors) = Len(state.errors) + 1
                /\ state' = [state EXCEPT !.errors =
                                Append(@, "Maximum retries ("
                                          \o ToString(state.max_retries) \o ") exceeded")]
                /\ ~repair'.budget]_vars
    /\ [][(pc = "route_after_error_handler" /\ ~repair.budget)
             => pc' = "generate_report"]_vars

C24_Witness ==
    /\ IsRun
    /\ pc = "generate_report"
    /\ LastNode = "handle_error"
    /\ ~repair.budget
    /\ state.retry_count = 0
    /\ state.max_retries = 0
    /\ state.parsed_actions # <<>>
    /\ state.generated_code # <<>>
    /\ state.errors = <<"Maximum retries (0) exceeded">>

Repaired == \E i \in 1..Len(trace) : trace[i].node = "handle_error" /\ trace[i].ok

\* C25: a handle_error pass that rewrites at least one selector returns with
\* generated_code empty and is_valid false, also when validation had passed
\* before; from then on every script that is validated or executed is one
\* emitted from the rewritten actions, never the script from before the
\* repair.
C25_RepairForcesRegeneration ==
    /\ [][(pc = "handle_error" /\ repair'.modified)
             => /\ state'.generated_code = <<>>
                /\ ~state'.validation_result.is_valid]_vars
    /\ []((/\ Repaired
           /\ pc \in {"validate_code", "route_after_validation", "execute_test"})
             => state.generated_code \in Emissions(state))

C25_Witness ==
    /\ Repaired
    /\ repair.source = "execution"
    /\ pc = "validate_code"
    /\ state.parsed_actions[1].selector = repair.alternatives[1]
    /\ state.generated_code \in Emissions(state)

\* The failing selector of the last recovery step is the selector of an action.
Carried(actions, failed_selector) ==
    \E i \in 1..Len(actions) : actions[i].selector = failed_selector

\* C26: a handle_error pass with budget left in which no failing selector is
\* extracted, or no alternative is found, or no action carries the failing
\* selector, rewrites nothing: it returns the state it was given with
\* retry_count one higher (parsed_actions, generated_code, validation_result
\* and all else unchanged) and hands over to its router.
C26_NoRepairNoMutation ==
    [][(/\ pc = "handle_error"
        /\ repair'.budget
        /\ \/ ~Truthy(repair'.failed_selector)
           \/ repair'.alternatives = <<>>
           \/ ~Carried(state.parsed_actions, repair'.failed_selector))
          => /\ state' = [state EXCEPT !.retry_count = @ + 1]
             /\ ~repair'.modified
             /\ pc' = "route_after_error_handler"]_vars

C26_Witness ==
    /\ LastNode = "handle_error"
    /\ repair.budget
    /\ repair.failed_selector = "#submit"
    /\ repair.alternatives # <<>>
    /\ ~Carried(state.parsed_actions, repair.failed_selector)
    /\ state.generated_code # <<>>
    /\ state.validation_result.is_valid
    /\ state.retry_count = 1

\* C27: the recovery step classifies with validation first: when is_valid is
\* false the message it analyses is the validation message, also when
\* execution_result, left from an earlier attempt or not, reports a failure;
\* it takes the failure as an execution failure only when is_valid is true.
C27_ValidationFailureFirst ==
    [][(pc = "handle_error" /\ repair'.budget)
          => /\ ~state.validation_result.is_valid
                => /\ repair'.source = "validation"
                   /\ repair'.message = state.validation_result.error_message
             /\ repair'.source = "execution"
                => /\ state.validation_result.is_valid
                   /\ ~state.execution_result.success]_vars

C27_Witness ==
    /\ LastNode = "handle_error"
    /\ repair.source = "validation"
    /\ Truthy(repair.message)
    /\ ~state.execution_result.success
    /\ Truthy(state.execution_result.error_message)
    /\ state.execution_result.steps # <<>>
    /\ repair.message # state.execution_result.error_message
    /\ state.test_file_path # ""

\* Step i of the execution result reports a failure with a message.
StepFailed(i) ==
    /\ state.execution_result.steps[i].status = "fail"
    /\ Truthy(state.execution_result.steps[i].error)

\* C28: for an execution failure the recovery step analyses the error of the
\* first step, in step order, whose status is "fail" and whose error is not
\* empty; it analyses the run-level error_message only when there is no
\* such step.
C28_FirstFailingStepMessage ==
    [][(pc = "handle_error" /\ repair'.budget /\ repair'.source = "execution")
          => /\ \A i \in 1..Len(state.execution_result.steps) :
                   (StepFailed(i) /\ \A j \in 1..(i - 1) : ~StepFailed(j))
                      => repair'.message = state.execution_result.steps[i].error
             /\ (\A i \in 1..Len(state.execution_result.steps) : ~StepFailed(i))
                   => repair'.message = state.execution_result.error_message]_vars

C28_Witness ==
    /\ LastNode = "handle_error"
    /\ repair.source = "execution"
    /\ Len(state.execution_result.steps) = 3
    /\ state.execution_result.steps[1].status = "fail"
    /\ state.execution_result.steps[2].status = "pass"
    /\ repair.message = state.execution_result.steps[3].error
    /\ repair.message # state.execution_result.error_message
    /\ Truthy(state.execution_result.error_message)

C30_ActionsFixedAfterTranslation ==
    /\ [](IsRun => /\ Runs("parse_instruction") <= 1
                   /\ pc # "parse_instruction" => trace[1].node = "parse_instruction")
    /\ [][/\ pc' # "parse_instruction"
          /\ pc # "parse_instruction"
                => /\ Len(state'.parsed_actions) = Len(state.parsed_actions)
                   /\ \A i \in 1..Len(state.parsed_actions) :
                         /\ state'.parsed_actions[i].action = state.parsed_actions[i].action
                         /\ state'.parsed_actions[i].value = state.parsed_actions[i].value
                         /\ state'.parsed_actions[i].target = state.parsed_actions[i].target
                         /\ state'.parsed_actions[i].selector # state.parsed_actions[i].selector
                               => pc = "handle_error"]_vars

C30_Witness ==
    /\ IsRun
    /\ pc = "END"
    /\ Runs("parse_instruction") = 1
    /\ Runs("generate_code") = MaxBudget
    /\ Len(state.parsed_actions) = MaxActions
    /\ state.parsed_actions[1].action = "goto"
    /\ state.parsed_actions[1].target = "/login"

C31_ErrorsAppendOnly ==
    [][/\ Len(state'.errors) >= Len(state.errors)
       /\ SubSeq(state'.errors, 1, Len(state.errors)) = state.errors]_vars

C31_Witness ==
    /\ IsRun
    /\ pc = "END"
    /\ Len(state.errors) = 3
    /\ state.errors[1] = "Failed to parse instruction: Expecting value: line 1 column 1 (char 0)"
    /\ state.errors[2] = "No parsed actions to generate code from"
    /\ state.errors[3] = "Maximum retries (0) exceeded"

\* C32: instruction, base_url and max_retries are fixed for the run: no
\* stage changes any of them, and a run started through run_agent has
\* max_retries = 3.
C32_RunInputsAreFixed ==
    /\ [][/\ state'.instruction = state.instruction
          /\ state'.base_url = state.base_url
          /\ state'.max_retries = state.max_retries]_vars
    /\ [](origin = "run_agent" => state.max_retries = 3)

C32_Witness ==
    /\ origin = "run_agent"
    /\ pc = "END"
    /\ state.instruction = "log in"
    /\ state.base_url = "http://localhost:5000"
    /\ state.retry_count = 3
    /\ state.max_retries = 3
    /\ state.report.status = "FAILED"

Max(a, b) == IF a >= b THEN a ELSE b

C34_NoGivingUpWithBudgetLeft ==
    pc = "END" => \/ state.execution_result.success
                  \/ state.retry_count >= state.max_retries

C34_Witness ==
    /\ pc = "END"
    /\ ~state.execution_result.success
    /\ Runs("execute_test") = 1
    /\ Runs("handle_error") = state.max_retries
    /\ state.retry_count = state.max_retries
    /\ state.max_retries >= 2

\* The node that ran before the last one.
NodeBeforeLast == IF Len(trace) >= 2 THEN trace[Len(trace) - 1].node ELSE None

\* C35: a report with status PASSED is produced only when the stage before
\* generate_report was execute_test with success = true, on a non-empty
\* script whose validation is valid; when generate_report follows
\* handle_error, or the latest validation is invalid, the status is FAILED.
C35_PassedOnlyAfterSuccessfulExecution ==
    pc = "END"
        => /\ state.report.status = "PASSED"
                => /\ NodeBeforeLast \in {"execute_test", None}
                   /\ state.execution_result.success
                   /\ state.generated_code # <<>>
                   /\ state.validation_result.is_valid
           /\ (NodeBeforeLast = "handle_error" \/ ~state.validation_result.is_valid)
                => state.report.status = "FAILED"

C35_Witness ==
    /\ pc = "END"
    /\ state.report.status = "PASSED"
    /\ NodeBeforeLast = "execute_test"
    /\ state.report.total_steps = MaxActions
    /\ state.test_file_path # ""

\* The place in the trace of the last pass of a node, 0 when it has not run.
LastPass(node) ==
    LET at == {0} \cup {i \in 1..Len(trace) : trace[i].node = node}
    IN  CHOOSE i \in at : \A j \in at : i >= j

C37_RepairNeverRewritesToItself ==
    [][(pc = "handle_error" /\ repair'.modified)
          => /\ repair'.alternatives[1] # repair'.failed_selector
             /\ Carried(state.parsed_actions, repair'.failed_selector)
             /\ ~Carried(state'.parsed_actions, repair'.failed_selector)]_vars

C37_Witness ==
    /\ LastNode = "handle_error"
    /\ repair.modified
    /\ repair.failed_selector = "input[name='username']"
    /\ state.parsed_actions[1].selector = "input[id='username']"
    /\ state.parsed_actions[1].action = "fill"

ValidationPass ==
    /\ LastNode = "handle_error"
    /\ repair.budget
    /\ repair.source = "validation"

\* No message of validate_code matches a pattern of extract_failed_selector:
\* a pass on a validation failure extracts nothing and rewrites nothing.
ValidationPassRepairsNothing ==
    ValidationPass => /\ repair.failed_selector = None
                      /\ repair.alternatives = <<>>
                      /\ ~repair.modified

\* C39: a validation failure is retryable via repair: from a message that
\* validate_code produces, the handle_error pass classified as a validation
\* failure extracts a selector, so that it can rewrite the actions and the
\* script regenerated on retry differs from the one that failed.
C39_ValidationFailureIsRepairable ==
    (ValidationPass /\ Truthy(repair.message)) => Truthy(repair.failed_selector)

\* handle_error is entered over an edge of the graph, not called on a state
\* of the caller's making.
Routed == IsRun \/ trace # <<>>

\* C40: with max_retries >= 1 handle_error is never entered with
\* retry_count >= max_retries, and the terminal diagnostic "Maximum retries
\* (n) exceeded" is never appended to errors; the branch is entered only
\* with max_retries = 0 after a failed validation.
C40_TerminalDiagnosticOnlyWithoutBudget ==
    /\ (pc = "handle_error" /\ Routed /\ state.retry_count >= state.max_retries)
          => /\ state.max_retries = 0
             /\ ~state.validation_result.is_valid
    /\ state.max_retries >= 1
          => \A i \in 1..Len(state.errors) :
                ~StartsWith(state.errors[i], "Maximum retries")

C40_Witness ==
    /\ origin = "run_agent"
    /\ pc = "END"
    /\ Runs("handle_error") = state.max_retries
    /\ state.retry_count = state.max_retries
    /\ state.parsed_actions # <<>>
    /\ state.errors = <<>>

====
